---- MODULE Spec2Model ----
(***************************************************************************)
(* Model of LZ78.py: the Lempel-Ziv (LZ78) entropy rate estimator erLZ78   *)
(* and the module-level minimum sample size configuration.                 *)
(*                                                                         *)
(* One Python process, single threaded.  The module state is the pair      *)
(* (_MINIMUM_SAMPLE_SIZE_, InputError); the other variables are the frame  *)
(* of the erLZ78 call in progress (or of the last call, once it ended).    *)
(*                                                                         *)
(* Numpy arrays are modelled as a dtype and a tuple of values; tobytes()   *)
(* is modelled byte by byte (little endian int64 and IEEE-754 float64), so *)
(* that two buffers are the same dictionary key exactly when their bytes   *)
(* agree.  Symbols are small non-negative integers.  The floating point    *)
(* value of line 100 is kept as the triple of its operands (c, adl, n).    *)
(***************************************************************************)
EXTENDS Integers, Sequences, FiniteSets, TLC

VARIABLES
    MINIMUM_SAMPLE_SIZE,   \* module global _MINIMUM_SAMPLE_SIZE_
    InputError,            \* module global InputError: the size its message names
    pc,                    \* position of the erLZ78 call
    sequence,              \* argument: the symbols
    kind,                  \* numpy dtype.kind of array(sequence)
    override_input_check,  \* argument
    table,                 \* local dict, in insertion order; <<>> while unbound
    current_seq,           \* local buffer (dtype, values)
    alpha_size,            \* local: unique(array(sequence))
    adl,                   \* local: alphabet description length
    idx,                   \* loop variable of enumerate(sequence); -1 while unbound
    result,                \* what the call returned or raised
    phrases,               \* history: the buffers inserted by case 3, in order
    lastSet,               \* history: argument of the last set_minimum_size call
    memo                   \* history: one remembered finished call

vars == <<MINIMUM_SAMPLE_SIZE, InputError, pc, sequence, kind,
          override_input_check, table, current_seq, alpha_size, adl, idx,
          result, phrases, lastSet, memo>>

frame == <<pc, sequence, kind, override_input_check, table, current_seq,
           alpha_size, adl, idx, result, phrases>>

(***************************************************************************)
(* Bounds of the model.                                                    *)
(***************************************************************************)
MaxLen == 5          \* longest sequence passed to erLZ78
ProbeLen == 3        \* longest sequence in the repeated-call specification

Symbols == {0, 1, 2}
ProbeSymbols == {0, 1}

SeqsUpTo(S, n) == UNION {[1..k -> S] : k \in 1..n}

\* The two example sequences of the documentation, always among the inputs.
Example == <<0, 1, 0, 1, 0, 1, 0, 1, 0, 1>>
ExampleConstant == <<0, 0, 0, 0, 0>>

Inputs == SeqsUpTo(Symbols, MaxLen) \cup {Example, ExampleConstant}
ProbeInputs == SeqsUpTo(ProbeSymbols, ProbeLen)

(***************************************************************************)
(* Module constants.                                                       *)
(***************************************************************************)
DEFAULT_MINIMUM_SAMPLE_SIZE == 5

UNSUPPORTED_KINDS == {"f", "c", "V", "O"}

\* dtype kinds of the inputs: "i" stands for the integer kinds (b, i, u).
Kinds == {"i", "f", "c", "V", "O"}

\* Kinds whose parse is modelled (integer valued symbols as int64 or float64).
ParsedKinds == {"i", "f"}

NewSizes == {3, 5, 6}
ProbeSizes == {2, 5}

(***************************************************************************)
(* numpy: dtypes, append, tobytes, unique, ceil(log2()).                   *)
(***************************************************************************)
RECURSIVE Pow2(_)
Pow2(n) == IF n = 0 THEN 1 ELSE 2 * Pow2(n - 1)

RECURSIVE FloorLog2(_)
FloorLog2(v) == IF v <= 1 THEN 0 ELSE 1 + FloorLog2(v \div 2)

CeilLog2_floor(a) == FloorLog2(a)

\* numpy.ceil(numpy.log2(a)) for an integer a >= 1
CeilLog2(a) == IF Pow2(FloorLog2(a)) = a THEN FloorLog2(a) ELSE FloorLog2(a) + 1

\* Byte k (1..4) of a 32 bit word, least significant first.
ByteOf(w, k) == (w \div Pow2(8 * (k - 1))) % 256

\* int64 little endian: 8 bytes (values here are 0 <= v < 2^31).
Int64Bytes(v) == [k \in 1..8 |-> IF k <= 4 THEN ByteOf(v, k) ELSE 0]

\* High 32 bits of the IEEE-754 double of an integer 0 <= v < 2^21:
\* sign 0, biased exponent 1023 + e, the mantissa's top 20 bits.
Float64Hi(v) ==
    IF v = 0 THEN 0
    ELSE LET e == FloorLog2(v)
         IN  (1023 + e) * Pow2(20) + (v - Pow2(e)) * Pow2(20 - e)

\* float64 little endian: the low word is 0 for these values.
Float64Bytes(v) == [k \in 1..8 |-> IF k <= 4 THEN 0 ELSE ByteOf(Float64Hi(v), k - 4)]

ElemBytes(dtype, v) == IF dtype = "int64" THEN Int64Bytes(v) ELSE Float64Bytes(v)

RECURSIVE Flatten(_)
Flatten(ss) == IF ss = <<>> THEN <<>> ELSE Head(ss) \o Flatten(Tail(ss))

\* ndarray.tobytes()
ToBytes(arr) == Flatten([i \in 1..Len(arr.vals) |-> ElemBytes(arr.dtype, arr.vals[i])])

\* dtype of one element of the sequence
ElemDtype(k) == IF k = "i" THEN "int64" ELSE "float64"

\* numpy.result_type of the two operands of concatenate
Promote(d1, d2) == IF d1 = "int64" /\ d2 = "int64" THEN "int64" ELSE "float64"

NpAppend_discarded(arr, number, k) == arr

\* numpy.append(arr, number)
NpAppend(arr, number, k) ==
    [dtype |-> Promote(arr.dtype, ElemDtype(k)), vals |-> Append(arr.vals, number)]

\* array([], dtype = int64)
EmptyInt64 == [dtype |-> "int64", vals |-> <<>>]

\* array([])
EmptyDefault == [dtype |-> "float64", vals |-> <<>>]

Range(s) == {s[i] : i \in 1..Len(s)}

RECURSIVE SortedSeq(_)
SortedSeq(S) ==
    IF S = {} THEN <<>>
    ELSE LET m == CHOOSE x \in S : \A y \in S : x <= y
         IN  <<m>> \o SortedSeq(S \ {m})

\* numpy.unique(array(sequence)): the sorted distinct values
Unique(s) == SortedSeq(Range(s))

(***************************************************************************)
(* The dictionary: entries <<key, value>> in insertion order.  A key is    *)
(* a bytes object or a Python int.                                         *)
(***************************************************************************)
BytesKey(b) == [tag |-> "bytes", b |-> b, i |-> 0]
IntKey(n) == [tag |-> "int", b |-> <<>>, i |-> n]

\* table = {array([]).tobytes() : 0}
SeedKey == BytesKey(ToBytes(EmptyDefault))

InitTable_sentinel == <<[key |-> SeedKey, val |-> 0], [key |-> IntKey(-1), val |-> -1]>>

InitTable == <<[key |-> SeedKey, val |-> 0]>>

Keys(t) == {t[i].key : i \in 1..Len(t)}

\* key in table
InTable(k, t) == k \in Keys(t)

DictSet_fresh(t, k, v) == <<[key |-> k, val |-> v]>>

\* table[k] = v
DictSet(t, k, v) ==
    IF InTable(k, t)
    THEN [i \in 1..Len(t) |-> IF t[i].key = k THEN [key |-> k, val |-> v] ELSE t[i]]
    ELSE Append(t, [key |-> k, val |-> v])

\* the key and the value of the entry written at end of input
CompensationKey == IntKey(-1)
CompensationVal == -1

(***************************************************************************)
(* Outcomes of a call.                                                     *)
(***************************************************************************)
NoResult == [tag |-> "none", c |-> 0, adl |-> 0, n |-> 0, msg |-> ""]

\* return 0
ReturnZero == [tag |-> "zero", c |-> 0, adl |-> 0, n |-> 0, msg |-> ""]

Estimate_buffer(t, a, s) ==
    [tag |-> "estimate", c |-> Len(t), adl |-> a, n |-> Len(current_seq.vals), msg |-> ""]

\* return len(table)*(log2(len(table))+adl)/len(sequence)
Estimate(t, a, s) == [tag |-> "estimate", c |-> Len(t), adl |-> a, n |-> Len(s), msg |-> ""]

\* raise InputError: the exception built by the last set_minimum_size
RaiseInputError(e) == [tag |-> "InputError", c |-> 0, adl |-> 0, n |-> e, msg |-> "size"]

\* raise ValueError(_UNSUPPORTED_KIND_TEMPLATE_.format(kind))
RaiseKindError(k) == [tag |-> "KindError", c |-> 0, adl |-> 0, n |-> 0, msg |-> k]

NoMemo == [set |-> FALSE, sequence |-> <<>>, kind |-> "i", override |-> FALSE,
           minimum |-> 0, result |-> NoResult, between |-> FALSE]

(***************************************************************************)
(* Initial state: the module has been imported (line 37 has run).          *)
(***************************************************************************)
Init ==
    /\ MINIMUM_SAMPLE_SIZE = DEFAULT_MINIMUM_SAMPLE_SIZE
    /\ InputError = DEFAULT_MINIMUM_SAMPLE_SIZE
    /\ lastSet = DEFAULT_MINIMUM_SAMPLE_SIZE
    /\ pc = "idle"
    /\ sequence = <<>>
    /\ kind = "i"
    /\ override_input_check = FALSE
    /\ table = <<>>
    /\ current_seq = EmptyInt64
    /\ alpha_size = <<>>
    /\ adl = 0
    /\ idx = -1
    /\ result = NoResult
    /\ phrases = <<>>
    /\ memo = NoMemo

\* No call of erLZ78 is on the stack.
Idle == pc = "idle"

(***************************************************************************)
(* set_minimum_size(new_size), between two calls of erLZ78.                *)
(***************************************************************************)
\* line 33
NewMinimum(new_size) == new_size

NewInputError_stale(new_size) == InputError

NewInputError_before(new_size) == MINIMUM_SAMPLE_SIZE

\* line 35
NewInputError(new_size) == new_size

set_minimum_size(sizes) ==
    /\ Idle
    /\ \E new_size \in sizes :
        /\ MINIMUM_SAMPLE_SIZE' = NewMinimum(new_size)
        /\ InputError' = NewInputError(MINIMUM_SAMPLE_SIZE')
        /\ lastSet' = new_size
    /\ UNCHANGED <<frame, memo>>

(***************************************************************************)
(* erLZ78, lines 44-70: entry and input handling.                          *)
(***************************************************************************)
KindRejected(k) == k \in UNSUPPORTED_KINDS

SizeRejected_inclusive(s) == Len(s) <= MINIMUM_SAMPLE_SIZE

SizeRejected(s) == Len(s) < MINIMUM_SAMPLE_SIZE

Call(seqs) ==
    /\ Idle
    /\ \E s \in seqs, k \in Kinds, o \in BOOLEAN :
        /\ o => k \in ParsedKinds
        /\ sequence' = s
        /\ kind' = k
        /\ override_input_check' = o
        /\ table' = <<>>
        /\ current_seq' = EmptyInt64
        /\ alpha_size' = <<>>
        /\ adl' = 0
        /\ idx' = -1
        /\ phrases' = <<>>
        /\ IF ~o /\ KindRejected(k)
           THEN pc' = "raised" /\ result' = RaiseKindError(k)
           ELSE IF ~o /\ SizeRejected(s)
           THEN pc' = "raised" /\ result' = RaiseInputError(InputError)
           ELSE pc' = "begin" /\ result' = NoResult
        /\ memo' = IF memo.set /\ <<s, k, o>> # <<memo.sequence, memo.kind, memo.override>>
                   THEN [memo EXCEPT !.between = TRUE]
                   ELSE memo
    /\ UNCHANGED <<MINIMUM_SAMPLE_SIZE, InputError, lastSet>>

(***************************************************************************)
(* erLZ78, lines 74-81: the bypasses and the initialisation.               *)
(***************************************************************************)
\* line 74
IsLengthOne(s) == Len(s) = 1

SingleSymbol_never(a) == FALSE

SingleSymbol_empty(a) == Len(a) = 0

\* line 79
SingleSymbol(a) == Len(a) = 1

Begin ==
    /\ pc = "begin"
    /\ IF IsLengthOne(sequence)
       THEN /\ pc' = "returned"
            /\ result' = ReturnZero
            /\ UNCHANGED <<table, current_seq, alpha_size, adl>>
       ELSE /\ table' = InitTable
            /\ current_seq' = EmptyInt64
            /\ alpha_size' = Unique(sequence)
            /\ IF SingleSymbol(alpha_size')
               THEN /\ pc' = "returned"
                    /\ result' = ReturnZero
                    /\ adl' = adl
               ELSE /\ adl' = CeilLog2(Len(alpha_size'))
                    /\ pc' = "loop"
                    /\ result' = result
    /\ UNCHANGED <<MINIMUM_SAMPLE_SIZE, InputError, lastSet, memo, sequence,
                   kind, override_input_check, idx, phrases>>

(***************************************************************************)
(* erLZ78, lines 84-99: one iteration of the loop.                         *)
(***************************************************************************)
ResetBuffer_stale == current_seq

ResetBuffer_last == [dtype |-> "float64", vals |-> <<sequence[idx + 2]>>]

\* the buffer reset of line 99
ResetBuffer == EmptyDefault

NextIndex_phrases(t) == Len(t) - 1

\* the value given to a new phrase at line 98
NextIndex(t) == Len(t)

AtEndOfInput_early(i, s) == i = Len(s) - 2

\* line 87: is this the last position?
AtEndOfInput(i, s) == i = Len(s) - 1

LoopStep ==
    /\ pc = "loop"
    /\ idx + 1 < Len(sequence)
    /\ LET i == idx + 1
           number == sequence[i + 1]
           buf == NpAppend(current_seq, number, kind)
           key == BytesKey(ToBytes(buf))
       IN  /\ idx' = i
           /\ IF InTable(key, table)
              THEN IF AtEndOfInput(i, sequence)
                   THEN /\ table' = DictSet(table, CompensationKey, CompensationVal)
                        /\ current_seq' = buf
                        /\ pc' = "return"
                        /\ UNCHANGED phrases
                   ELSE /\ current_seq' = buf
                        /\ UNCHANGED <<table, pc, phrases>>
              ELSE /\ table' = DictSet(table, key, NextIndex(table))
                   /\ current_seq' = ResetBuffer
                   /\ phrases' = Append(phrases, buf.vals)
                   /\ pc' = IF i + 1 < Len(sequence) THEN "loop" ELSE "return"
    /\ UNCHANGED <<MINIMUM_SAMPLE_SIZE, InputError, lastSet, memo, sequence,
                   kind, override_input_check, alpha_size, adl, result>>

(***************************************************************************)
(* erLZ78, line 100.                                                       *)
(***************************************************************************)
Return ==
    /\ pc = "return"
    /\ result' = Estimate(table, adl, sequence)
    /\ pc' = "returned"
    /\ UNCHANGED <<MINIMUM_SAMPLE_SIZE, InputError, lastSet, memo, sequence,
                   kind, override_input_check, table, current_seq, alpha_size,
                   adl, idx, phrases>>

(***************************************************************************)
(* The call ends: its frame (arguments and locals) is discarded and        *)
(* control is back at the caller.                                          *)
(***************************************************************************)
Exit ==
    /\ pc \in {"returned", "raised"}
    /\ pc' = "idle"
    /\ sequence' = <<>>
    /\ kind' = "i"
    /\ override_input_check' = FALSE
    /\ table' = <<>>
    /\ current_seq' = EmptyInt64
    /\ alpha_size' = <<>>
    /\ adl' = 0
    /\ idx' = -1
    /\ result' = NoResult
    /\ phrases' = <<>>
    /\ UNCHANGED <<MINIMUM_SAMPLE_SIZE, InputError, lastSet, memo>>

(***************************************************************************)
(* History: remember one finished call, to compare later calls with it.    *)
(***************************************************************************)
Remember ==
    /\ pc \in {"returned", "raised"}
    /\ ~memo.set
    /\ memo' = [set |-> TRUE, sequence |-> sequence, kind |-> kind,
                override |-> override_input_check,
                minimum |-> MINIMUM_SAMPLE_SIZE, result |-> result,
                between |-> FALSE]
    /\ UNCHANGED <<MINIMUM_SAMPLE_SIZE, InputError, lastSet, frame>>

Next ==
    \/ set_minimum_size(NewSizes)
    \/ Call(Inputs)
    \/ Begin
    \/ LoopStep
    \/ Return
    \/ Exit

Spec == Init /\ [][Next]_vars

NextTwice ==
    \/ set_minimum_size(ProbeSizes)
    \/ Call(ProbeInputs)
    \/ Begin
    \/ LoopStep
    \/ Return
    \/ Exit
    \/ Remember

SpecTwice == Init /\ [][NextTwice]_vars

(***************************************************************************)
(* The reference LZ78 parse of a sequence of symbols: each phrase is the   *)
(* shortest prefix of the remaining input that is not yet in the           *)
(* dictionary; phrases are compared symbol by symbol.                      *)
(***************************************************************************)
RECURSIVE RefLZ78(_, _, _)
RefLZ78(s, dict, buf) ==
    IF s = <<>>
    THEN [k |-> Cardinality(dict), trailing |-> buf # <<>>]
    ELSE LET b == Append(buf, Head(s))
         IN  IF b \in dict
             THEN RefLZ78(Tail(s), dict, b)
             ELSE RefLZ78(Tail(s), dict \cup {b}, <<>>)

RefParse(s) == RefLZ78(s, {}, <<>>)

Alphabet(s) == {s[i] : i \in 1..Len(s)}

Raised == pc = "raised"
Returned == pc = "returned"

(***************************************************************************)
(* C1: when the loop has ended (n >= 2, at least two distinct symbols),    *)
(* len(table) is k + 1 if the reference parse has k phrases and the input  *)
(* ends at a phrase boundary, and k + 2 if it ends on a repeated phrase.   *)
(***************************************************************************)
C1_PhraseCountIsReference ==
    pc = "return" =>
        LET r == RefParse(sequence)
        IN  Len(table) = IF r.trailing THEN r.k + 2 ELSE r.k + 1

(***************************************************************************)
(* C2 as stated: with the default minimum sample size, a call on a         *)
(* sequence of one repeated symbol, of any length, returns exactly 0,      *)
(* whatever override_input_check is.                                       *)
(***************************************************************************)
C2_ConstantAlwaysZero ==
    (/\ pc \in {"returned", "raised"}
     /\ kind = "i"
     /\ MINIMUM_SAMPLE_SIZE = 5
     /\ Cardinality(Alphabet(sequence)) = 1)
    => result = ReturnZero

(***************************************************************************)
(* C2 amended: with the default minimum sample size, a call on a sequence  *)
(* of one repeated integer symbol returns exactly 0 if the input check is  *)
(* overridden or the sequence has at least 5 elements; otherwise (check    *)
(* not overridden, fewer than 5 elements) it raises InputError.            *)
(***************************************************************************)
C2_ConstantZeroOrTooShort ==
    (/\ pc \in {"returned", "raised"}
     /\ kind = "i"
     /\ MINIMUM_SAMPLE_SIZE = 5
     /\ Cardinality(Alphabet(sequence)) = 1)
    => IF override_input_check \/ Len(sequence) >= 5
       THEN Returned /\ result = ReturnZero
       ELSE Raised /\ result.tag = "InputError"

C2_Witness ==
    /\ Returned
    /\ ~override_input_check
    /\ kind = "i"
    /\ MINIMUM_SAMPLE_SIZE = 5
    /\ sequence = ExampleConstant
    /\ result = ReturnZero

(***************************************************************************)
(* C3: a call fails with a validation error iff override_input_check is    *)
(* False and (the size is below the current minimum or the kind is one of  *)
(* f, c, V, O); a failed call has created no table and has no estimate;    *)
(* with override_input_check True no validation error is raised.           *)
(***************************************************************************)
C3_ValidationIff ==
    pc # "idle" =>
        /\ Raised <=> (/\ ~override_input_check
                       /\ \/ Len(sequence) < MINIMUM_SAMPLE_SIZE
                          \/ kind \in {"f", "c", "V", "O"})
        /\ Raised <=> result.tag \in {"InputError", "KindError"}
        /\ Raised => table = <<>> /\ phrases = <<>> /\ idx = -1
        /\ override_input_check => ~Raised

C3_Witness ==
    /\ Raised
    /\ result.tag = "InputError"
    /\ kind = "i"
    /\ Len(sequence) = MINIMUM_SAMPLE_SIZE - 1
    /\ table = <<>>

(***************************************************************************)
(* C4: the threshold erLZ78 compares the size against is the argument of   *)
(* the most recent set_minimum_size call (5 if none), the message of the   *)
(* too-short error names that same value, and erLZ78 changes neither.      *)
(***************************************************************************)
C4_ThresholdIsLastSet ==
    /\ MINIMUM_SAMPLE_SIZE = lastSet
    /\ InputError = lastSet
    /\ (pc # "idle" /\ ~override_input_check /\ kind = "i") =>
           /\ result.tag = "InputError" <=> Len(sequence) < lastSet
           /\ result.tag = "InputError" => result.n = lastSet

C4_Witness ==
    /\ Raised
    /\ result.tag = "InputError"
    /\ lastSet = 3
    /\ result.n = 3
    /\ Len(sequence) = 2


(***************************************************************************)
(* C5: two calls on the same sequence (same kind), with the same           *)
(* override_input_check and the same minimum sample size, have the same    *)
(* outcome (value or error), whatever calls ran in between.                *)
(***************************************************************************)
SameCallAsMemo ==
    /\ memo.set
    /\ pc \in {"returned", "raised"}
    /\ sequence = memo.sequence
    /\ kind = memo.kind
    /\ override_input_check = memo.override
    /\ MINIMUM_SAMPLE_SIZE = memo.minimum

C5_SameInputSameOutcome ==
    /\ SameCallAsMemo => result = memo.result
    /\ pc \in {"idle", "begin", "raised"} =>
           table = <<>> /\ current_seq.vals = <<>> /\ phrases = <<>>

C5_Witness ==
    /\ SameCallAsMemo
    /\ memo.between
    /\ result.tag = "estimate"
    /\ result = memo.result

(***************************************************************************)
(* C6: the value returned at line 100 is c*(log2(c)+adl)/n with c the      *)
(* final size of the table, n the length of the sequence and adl =         *)
(* ceil(log2(a)), a the number of distinct symbols of the whole sequence,  *)
(* fixed before the loop starts; for the example 0101010101 the operands   *)
(* are c = 7, adl = 1 (a = 2), n = 10, c being what the reference parse    *)
(* gives (5 phrases, a trailing repeat).                                   *)
(***************************************************************************)
LeastBits(a) == CHOOSE b \in 0..a : Pow2(b) >= a /\ (b = 0 \/ Pow2(b - 1) < a)

C6_EstimateOperands ==
    /\ pc \in {"loop", "return"} =>
           adl = LeastBits(Cardinality(Alphabet(sequence)))
    /\ (Returned /\ result.tag = "estimate") =>
           /\ result.c = Len(table)
           /\ result.n = Len(sequence)
           /\ result.adl = LeastBits(Cardinality(Alphabet(sequence)))
           /\ sequence = Example =>
                  /\ result.c = 7 /\ result.adl = 1 /\ result.n = 10
                  /\ RefParse(Example) = [k |-> 5, trailing |-> TRUE]

C6_Witness ==
    /\ Returned
    /\ sequence = Example
    /\ result = [tag |-> "estimate", c |-> 7, adl |-> 1, n |-> 10, msg |-> ""]

(***************************************************************************)
(* C7: for a sequence of length >= 1 the returned value is finite and      *)
(* >= 0: it is 0, or the formula evaluated with c >= 1, adl >= 0, n >= 1.  *)
(***************************************************************************)
C7_FiniteNonNegative ==
    Returned =>
        \/ result = ReturnZero
        \/ /\ result.tag = "estimate"
           /\ result.c >= 1
           /\ result.adl >= 0
           /\ result.n >= 1

C7_Witness ==
    /\ Returned
    /\ result.tag = "estimate"
    /\ current_seq.vals = <<>>
    /\ result.n = Len(sequence)
    /\ result.adl = 2

(***************************************************************************)
(* C8: every phrase inserted by case 3 differs, as a sequence of symbols,  *)
(* from every phrase inserted before it in the call, and is the shortest   *)
(* prefix of the not yet parsed input that is not already in the table.    *)
(***************************************************************************)
Earlier(j) == {phrases[i] : i \in 1..(j - 1)}

C8_PhrasesNewAndShortest ==
    \A j \in 1..Len(phrases) :
        LET ph == phrases[j]
            consumed == Len(Flatten(SubSeq(phrases, 1, j - 1)))
        IN  /\ ph # <<>>
            /\ ph = SubSeq(sequence, consumed + 1, consumed + Len(ph))
            /\ ph \notin Earlier(j)
            /\ \A m \in 1..(Len(ph) - 1) : SubSeq(ph, 1, m) \in Earlier(j)

(***************************************************************************)
(* C9: the compensation entry (key -1) is inserted at most once, only      *)
(* while processing idx = n-1 and exactly when the buffer with the last    *)
(* symbol appended is already a key of the table; the loop stops right     *)
(* after it, its key differs from every phrase key, and every other entry  *)
(* the table gains is a newly observed phrase.                             *)
(***************************************************************************)
C9_CompensationStep ==
    LET buf == NpAppend(current_seq, sequence[idx' + 1], kind)
        bufKey == BytesKey(ToBytes(buf))
        loopStep == pc = "loop" /\ idx' = idx + 1
    IN  /\ (table # <<>> /\ Len(table') > Len(table)) =>
               /\ loopStep
               /\ Len(table') = Len(table) + 1
               /\ SubSeq(table', 1, Len(table)) = table
               /\ LET e == table'[Len(table')]
                  IN  \/ /\ e.key = IntKey(-1)
                         /\ idx' = Len(sequence) - 1
                         /\ bufKey \in Keys(table)
                         /\ IntKey(-1) \notin Keys(table)
                         /\ \A k \in Keys(table) : k.tag = "bytes"
                         /\ pc' = "return"
                         /\ phrases' = phrases
                      \/ /\ e.key = bufKey
                         /\ bufKey \notin Keys(table)
                         /\ phrases' = Append(phrases, buf.vals)
        /\ (loopStep /\ idx' = Len(sequence) - 1 /\ bufKey \in Keys(table)) =>
               IntKey(-1) \in Keys(table')
        /\ IntKey(-1) \in Keys(table') => pc' \in {"return", "returned"}

C9_CompensationOnlyAtEnd == [][C9_CompensationStep]_vars

C9_Witness ==
    /\ pc = "return"
    /\ IntKey(-1) \in Keys(table)
    /\ idx = Len(sequence) - 1
    /\ Len(phrases) = Len(table) - 2
    /\ Len(sequence) >= 3

(***************************************************************************)
(* C10: with the input check overridden, a sequence of length 1 or with    *)
(* exactly one distinct symbol returns 0 without entering the loop: no     *)
(* phrase is inserted and line 100 is not evaluated.                       *)
(***************************************************************************)
C10_BypassNoParse ==
    (/\ override_input_check
     /\ pc # "idle"
     /\ Len(sequence) = 1 \/ Cardinality(Alphabet(sequence)) = 1)
    => /\ pc \in {"begin", "returned"}
       /\ idx = -1
       /\ phrases = <<>>
       /\ Len(table) <= 1
       /\ Len(sequence) = 1 => table = <<>>
       /\ Returned => result = ReturnZero

C10_Witness ==
    /\ override_input_check
    /\ Returned
    /\ Len(sequence) >= 2
    /\ Cardinality(Alphabet(sequence)) = 1
    /\ result = ReturnZero
    /\ table = InitTable

(***************************************************************************)
(* C11: while the table exists its keys are unique and its values are the  *)
(* insertion indices: the seed has value 0, the k-th entry inserted has    *)
(* value k, and only the compensation entry (the last one, if any) has     *)
(* the value -1.                                                           *)
(***************************************************************************)
C11_ValuesAreInsertionIndices ==
    table # <<>> =>
        /\ Cardinality(Keys(table)) = Len(table)
        /\ table[1] = [key |-> BytesKey(<<>>), val |-> 0]
        /\ \A i \in 1..Len(table) :
               IF table[i].key = IntKey(-1)
               THEN table[i].val = -1 /\ i = Len(table)
               ELSE table[i].val = i - 1
        /\ IntKey(-1) \notin Keys(table) =>
               {table[i].val : i \in 1..Len(table)} = 0..(Len(table) - 1)

C11_Witness ==
    /\ pc = "return"
    /\ Len(table) = 5
    /\ table[5].key = IntKey(-1)
    /\ table[4].val = 3

(***************************************************************************)
(* C12: whenever line 100 is evaluated the phrase count c is at least 2.   *)
(***************************************************************************)
C12_CountAtLeastTwo ==
    /\ pc = "return" => Len(table) >= 2
    /\ result.tag = "estimate" => result.c >= 2

C12_Witness ==
    /\ Returned
    /\ result.tag = "estimate"
    /\ result.c = 3
    /\ result.n = 2

(***************************************************************************)
(* C13: for a sequence of length n the table never holds more than n + 2   *)
(* entries and the buffer never more than n symbols; the loop runs at most *)
(* n iterations, each adding at most one entry to the seed.                *)
(***************************************************************************)
C13_LinearBounds ==
    table # <<>> =>
        /\ Len(table) <= Len(sequence) + 2
        /\ Len(current_seq.vals) <= Len(sequence)
        /\ idx + 1 <= Len(sequence)
        /\ Len(table) <= 1 + (idx + 1)

C13_Witness ==
    /\ pc = "return"
    /\ Len(sequence) = 5
    /\ idx = 4
    /\ Len(table) = 6

(***************************************************************************)
(* C14: the seed entry (empty phrase, value 0) stays in the table from its *)
(* creation to the end of the call, and no lookup of the loop matches it:  *)
(* the buffer looked up holds at least one symbol.                         *)
(***************************************************************************)
C14_SeedStep ==
    LET buf == NpAppend(current_seq, sequence[idx' + 1], kind)
    IN  /\ table' # <<>> =>
               /\ table'[1] = [key |-> BytesKey(<<>>), val |-> 0]
               /\ \A i \in 2..Len(table') : table'[i].key # BytesKey(<<>>)
        /\ (pc = "loop" /\ idx' = idx + 1) =>
               /\ Len(buf.vals) >= 1
               /\ Len(buf.vals) = Len(current_seq.vals) + 1
               /\ BytesKey(ToBytes(buf)) # BytesKey(<<>>)

C14_SeedNeverMatched == [][C14_SeedStep]_vars

C14_Witness ==
    /\ pc = "loop"
    /\ Len(current_seq.vals) = 2
    /\ table[1] = [key |-> BytesKey(<<>>), val |-> 0]
    /\ Len(table) >= 3

(***************************************************************************)
(* C15: the phrase count and the estimate depend only on which symbols are *)
(* equal, not on their values: a call on the sequence with 0 and 1 swapped *)
(* (same kind, same override, same minimum size) gives the same result.    *)
(***************************************************************************)
Swap01(s) == [i \in 1..Len(s) |-> IF s[i] = 0 THEN 1 ELSE IF s[i] = 1 THEN 0 ELSE s[i]]

C15_RelabelingInvariant ==
    (/\ memo.set
     /\ pc \in {"returned", "raised"}
     /\ sequence = Swap01(memo.sequence)
     /\ kind = memo.kind
     /\ override_input_check = memo.override
     /\ MINIMUM_SAMPLE_SIZE = memo.minimum)
    => result = memo.result

(***************************************************************************)
(* C16: once the loop has processed position idx, the phrases inserted so  *)
(* far, in insertion order, followed by the current buffer, spell          *)
(* sequence[0..idx]; the buffer is empty right after an insertion and      *)
(* otherwise is a phrase already in the table.                             *)
(***************************************************************************)
PhraseKeys(ph) ==
    {BytesKey(ToBytes([dtype |-> d, vals |-> ph])) : d \in {"int64", "float64"}}

C16_ParseSpellsPrefix ==
    pc \in {"loop", "return"} =>
        /\ Flatten(phrases) \o current_seq.vals = SubSeq(sequence, 1, idx + 1)
        /\ \A j \in 1..Len(phrases) : table[j + 1].key \in PhraseKeys(phrases[j])
        /\ current_seq.vals # <<>> =>
               /\ BytesKey(ToBytes(current_seq)) \in Keys(table)
               /\ current_seq.vals \in Range(phrases)

C16_Witness ==
    /\ pc = "loop"
    /\ idx = 3
    /\ Len(phrases) = 2
    /\ Len(current_seq.vals) = 1
    /\ Len(phrases[2]) = 2

(***************************************************************************)
(* C17: while the table exists it is prefix-closed: every non-seed phrase  *)
(* with its last symbol removed is also a key of the table (the seed when  *)
(* the phrase has one symbol).                                             *)
(***************************************************************************)
C17_PrefixClosed ==
    table # <<>> =>
        /\ \A k \in Keys(table) :
               (k.tag = "bytes" /\ k.b # <<>>) =>
                   /\ Len(k.b) % 8 = 0
                   /\ BytesKey(SubSeq(k.b, 1, Len(k.b) - 8)) \in Keys(table)
        /\ \A j \in 1..Len(phrases) :
               LET ph == phrases[j]
               IN  Len(ph) > 1 => SubSeq(ph, 1, Len(ph) - 1) \in Earlier(j)

C17_Witness ==
    /\ pc = "return"
    /\ \E j \in 1..Len(phrases) : Len(phrases[j]) = 3
    /\ Len(table) >= 4

====
